---------------------------- MODULE Spec2Model ----------------------------
(***************************************************************************)
(* Voifodas server (src/server.py): the session store `conversations`, the *)
(* streaming chat handler with its response generator, the quick action,   *)
(* context analysis and auto-suggest handlers, clear_history and           *)
(* cleanup_sessions.                                                       *)
(*                                                                         *)
(* Flask serves each request on its own thread, and the body of a          *)
(* streaming response is produced lazily by the generator while other      *)
(* requests run.  A chat request is therefore a process: its position is   *)
(* pc[t], its locals are the variables named as in the source, and every   *)
(* action is one step between two accesses of the shared store.            *)
(*                                                                         *)
(* Text is a TLA+ string; \o is Python's + on str, "" is the empty str.    *)
(* A JSON request body is a function from the field names it carries to    *)
(* their values; Get is dict.get.                                          *)
(***************************************************************************)
EXTENDS Naturals, Sequences, FiniteSets, TLC

\* ------------------------------------------------------------- bounds

\* Request threads that can be inside chat_stream at the same time.
NThreads == 2
\* Chat requests with a non-empty message accepted in one behaviour of Spec,
\* which starts from the fresh store or from a full window.
MaxChats == 1
\* Fragments one capability stream delivers at most.
MaxChunks == 2
\* The same two bounds in SpecRace, where the chat requests run concurrently.
MaxChatsRace == 2
MaxChunksRace == 1
\* The same two bounds in SpecWindow, which fills one session past its window.
MaxChatsWindow == 6
MaxChunksWindow == 1

Threads == 1..NThreads

\* Session ids a caller sends (session_id absent means 'default').
SentKeys == {"s1"}
\* Personalities a caller sends: a known one and an unknown one.
SentPersonalities == {"teacher", "bogus"}

\* The decimal numeral of n, to tell one text from another.
Digits == <<"0", "1", "2", "3", "4", "5", "6", "7", "8", "9">>
RECURSIVE NatStr(_)
NatStr(n) == IF n < 10 THEN Digits[n + 1] ELSE NatStr(n \div 10) \o Digits[(n % 10) + 1]

\* The handlers never look into a message or a fragment beyond asking whether
\* it is empty, so the n-th chat message of a behaviour is the empty one or
\* the text "q<n>", and the i-th chunk of a stream carries the empty content
\* ("" stands for None too: both are falsy in Python) or the text "f<i>":
\* all the texts of a history differ, and orderings show.
SentMessages(n) == {"", "q" \o NatStr(n)}
Fragments(i) == {"", "f" \o NatStr(i)}

\* ---------------------------------------------------- program constants

\* server.py:409-410: the window of the stored history.
W == 10

\* server.py:413-418
system_prompts ==
    [concise |-> "You are a helpful AI assistant. Be concise and direct.",
     casual  |-> "You are a friendly AI assistant. Be casual and conversational.",
     formal  |-> "You are a professional AI assistant. Be formal and detailed.",
     teacher |-> "You are a patient teacher. Explain concepts clearly with examples."]

\* server.py:258, 262: characters of each source that enter the analysis prompt.
AnalysisBudget == 2000
\* server.py:334, 336: characters of each source that enter the suggestion prompt.
SuggestBudget == 1000
\* server.py:363: characters of the suggestion the classifier looks at.
LeadLength == 100

\* str(e) of the exception the capability raises.
CapabilityError == "API error"

\* ------------------------------------------------------------- helpers

\* dict.get(field, default)
Get(data, fld, default) == IF fld \in DOMAIN data THEN data[fld] ELSE default

\* Python's truth value of a str.
Truthy(s) == s # ""

\* LastN, were the slice of line 410 lst[:n]: the first n messages are kept.
FirstN(lst, n) == IF Len(lst) <= n THEN lst ELSE SubSeq(lst, 1, n)

\* lst[-n:] for n > 0
LastN(lst, n) == IF Len(lst) <= n THEN lst ELSE SubSeq(lst, Len(lst) - n + 1, Len(lst))

\* The dict d with d[k] = v stored (the key is created when missing).
Store(d, k, v) == [x \in DOMAIN d \cup {k} |-> IF x = k THEN v ELSE d[x]]

\* str(KeyError(k))
KeyErrorText(k) == "'" \o k \o "'"

Message(role, content) == [role |-> role, content |-> content]

\* f"data: {json.dumps({...})}\n\n": one event frame carrying one JSON object.
ContentFrame(c) == [content |-> c]
DoneFrame       == [done |-> TRUE]
ErrorFrame(e)   == [error |-> e]

\* server.py:395: the generator expression over the empty list [].
EmptyMessageStream == [i \in 1..Len(<< >>) |-> ErrorFrame("Empty message")]

\* Every JSON object that carries some of the fields of a record of recs.
Bodies(recs) == UNION { { [f \in dom |-> r[f]] : dom \in SUBSET DOMAIN r } : r \in recs }

ChatBodies(n) ==
    Bodies([message : SentMessages(n), session_id : SentKeys,
            personality : SentPersonalities])

ClearBodies == Bodies([session_id : SentKeys])

Keys == SentKeys \cup {"default"}

\* -------------------------------------------------------------- state

VARIABLES
    conversations,  \* server.py:79: session id -> list of messages
    pc,             \* position of each chat request thread
    session_id,     \* chat_stream locals, per thread
    user_message,
    personality,
    sliced,         \* the value of conversations[session_id][-10:] (line 410), before it is stored
    messages,       \* the list sent to the capability (line 420)
    full_response,  \* generate's accumulator (line 436)
    chunks,         \* chunks received from the capability's stream so far
    status,         \* HTTP status of the response (0: none yet)
    frames,         \* event frames the generator has yielded, in order
    nchats,         \* chat requests with a non-empty message so far
    budget,         \* chat requests with a non-empty message the behaviour may still make
    log,            \* history: per session id, the messages appended since the key was created or cleared
    base,           \* history: per thread, the stored history right after its user message was appended and trimmed
    alone,          \* history: per thread, no other request has acted on its session since its user message was appended
    saved,          \* history: per thread, the assistant message this stream persisted (<< >> when none)
    overlap,        \* history: per session id, a request acted on the session while a chat request on it was in flight
    received,       \* history: per thread, the non-empty fragments its capability stream has delivered, in order
    resp            \* the response the last step sent, when it was a handler that answers at once

locals == <<session_id, user_message, personality, sliced, messages, full_response, chunks>>
hist   == <<log, base, alone, saved, overlap, received>>
vars   == <<conversations, pc, locals, status, frames, nchats, budget, hist, resp>>

NoRequest == [t \in Threads |-> ""]

\* A response sent at once: the handler and the request body it answers, the
\* HTTP status, the JSON body, and the message lists the handler sent to the
\* capability while it ran.
Response(op, data, st, body, calls) ==
    [op |-> op, request |-> data, status |-> st, body |-> body, calls |-> calls]

NoResponse == Response("none", << >>, 0, << >>, << >>)

\* Every thread idle and no response sent, with the store c left by k chat
\* requests; the behaviour may make n more chat requests with a non-empty message.
Start(c, k, n) ==
    /\ conversations = c
    /\ pc = [t \in Threads |-> "idle"]
    /\ session_id = NoRequest
    /\ user_message = NoRequest
    /\ personality = NoRequest
    /\ sliced = [t \in Threads |-> << >>]
    /\ messages = [t \in Threads |-> << >>]
    /\ full_response = NoRequest
    /\ chunks = [t \in Threads |-> 0]
    /\ status = [t \in Threads |-> 0]
    /\ frames = [t \in Threads |-> << >>]
    /\ nchats = k
    /\ budget = n
    /\ log = [x \in Keys |-> IF x \in DOMAIN c THEN c[x] ELSE << >>]
    /\ base = [t \in Threads |-> << >>]
    /\ alone = [t \in Threads |-> TRUE]
    /\ saved = [t \in Threads |-> << >>]
    /\ overlap = [x \in Keys |-> FALSE]
    /\ received = [t \in Threads |-> << >>]
    /\ resp = NoResponse

\* server.py:79: the store after construction.
Fresh(n) == Start(<< >>, 0, n)

\* The store once W \div 2 chat requests on the 'default' session have each
\* been answered with the one fragment "f1": a full window.  SpecWindow
\* reaches it from the fresh store (WarmReached).
WarmHistory ==
    [i \in 1..W |-> IF i % 2 = 1 THEN Message("user", "q" \o NatStr((i + 1) \div 2))
                                 ELSE Message("assistant", "f1")]

Warm(n) == Start([default |-> WarmHistory], W \div 2, n)

\* The server starts fresh, or is met with a full window on 'default'.
Init == Fresh(MaxChats) \/ Warm(MaxChats)

\* ------------------------------------------------- chat_stream, the handler

\* The key is absent from the store: conversations[k] raises KeyError.
Missing(k) == k \notin DOMAIN conversations

\* Another request acted on the sessions ks: the threads inside a chat on one
\* of them (other than t) are no longer alone on it.
Disturbed(t, ks) ==
    [u \in Threads |-> IF u # t /\ pc[u] # "idle" /\ session_id[u] \in ks
                        THEN FALSE ELSE alone[u]]

\* A chat request is in flight from its arrival to the end of its response.
InFlight(u) == pc[u] \notin {"idle", "closed", "aborted"}

\* Another request acted on the sessions ks: it overlapped the chat requests in
\* flight on them (other than t).  With none in flight, a session of fresh
\* starts anew.
Overlapped(t, ks, fresh) ==
    [k \in Keys |->
        IF k \in ks /\ \E u \in Threads \ {t} : InFlight(u) /\ session_id[u] = k THEN TRUE
        ELSE IF k \in fresh THEN FALSE
        ELSE overlap[k]]

\* An exception leaves the view function: Flask answers 500, no body is streamed.
Abort500(t) ==
    /\ status' = [status EXCEPT ![t] = 500]
    /\ pc' = [pc EXCEPT ![t] = "closed"]
    /\ UNCHANGED <<conversations, locals, frames, nchats, budget, hist>>

\* ChatStream, were the get-or-create of lines 400-401 to come before the
\* test of the message (line 393).
ChatStreamCreatesFirst(t, data) ==
    /\ pc[t] = "idle"
    /\ resp' = NoResponse
    /\ user_message' = [user_message EXCEPT ![t] = Get(data, "message", "")]
    /\ session_id' = [session_id EXCEPT ![t] = Get(data, "session_id", "default")]
    /\ personality' = [personality EXCEPT ![t] = Get(data, "personality", "concise")]
    /\ conversations' = IF Missing(session_id'[t]) THEN Store(conversations, session_id'[t], << >>)
                        ELSE conversations
    /\ log' = IF Missing(session_id'[t]) THEN [log EXCEPT ![session_id'[t]] = << >>] ELSE log
    /\ IF ~Truthy(user_message'[t])
         THEN /\ status' = [status EXCEPT ![t] = 200]
              /\ frames' = [frames EXCEPT ![t] = EmptyMessageStream]
              /\ pc' = [pc EXCEPT ![t] = "closed"]
              /\ UNCHANGED <<nchats, budget>>
         ELSE /\ budget > 0
              /\ budget' = budget - 1
              /\ nchats' = nchats + 1
              /\ pc' = [pc EXCEPT ![t] = "append"]
              /\ UNCHANGED <<status, frames>>
    /\ UNCHANGED <<sliced, messages, full_response, chunks, base, alone, saved, overlap, received>>

\* server.py:388-400: read the body; answer an empty message at once; look the
\* session up.
ChatStream(t, data) ==
    /\ pc[t] = "idle"
    /\ resp' = NoResponse
    /\ user_message' = [user_message EXCEPT ![t] = Get(data, "message", "")]
    /\ session_id' = [session_id EXCEPT ![t] = Get(data, "session_id", "default")]
    /\ personality' = [personality EXCEPT ![t] = Get(data, "personality", "concise")]
    /\ IF ~Truthy(user_message'[t])
         THEN /\ status' = [status EXCEPT ![t] = 200]
              /\ frames' = [frames EXCEPT ![t] = EmptyMessageStream]
              /\ pc' = [pc EXCEPT ![t] = "closed"]
              /\ UNCHANGED <<nchats, budget>>
         ELSE /\ budget > 0
              /\ budget' = budget - 1
              /\ nchats' = nchats + 1
              /\ pc' = [pc EXCEPT ![t] = IF Missing(session_id'[t]) THEN "create" ELSE "append"]
              /\ UNCHANGED <<status, frames>>
    /\ UNCHANGED <<conversations, sliced, messages, full_response, chunks, hist>>

\* server.py:401: conversations[session_id] = []
ChatCreate(t) ==
    /\ pc[t] = "create"
    /\ resp' = NoResponse
    /\ conversations' = Store(conversations, session_id[t], << >>)
    /\ log' = [log EXCEPT ![session_id[t]] = << >>]
    /\ alone' = Disturbed(t, {session_id[t]})
    /\ overlap' = Overlapped(t, {session_id[t]}, {})
    /\ pc' = [pc EXCEPT ![t] = "append"]
    /\ UNCHANGED <<locals, status, frames, nchats, budget, base, saved, received>>

\* server.py:403-406: conversations[session_id].append(user message)
ChatAppend(t) ==
    /\ pc[t] = "append"
    /\ resp' = NoResponse
    /\ IF Missing(session_id[t])
         THEN Abort500(t)
         ELSE /\ conversations' = [conversations EXCEPT ![session_id[t]] =
                                        Append(@, Message("user", user_message[t]))]
              /\ log' = [log EXCEPT ![session_id[t]] =
                                        Append(@, Message("user", user_message[t]))]
              /\ alone' = Disturbed(t, {session_id[t]})
              /\ overlap' = Overlapped(t, {session_id[t]}, {})
              /\ pc' = [pc EXCEPT ![t] = "trim"]
              /\ UNCHANGED <<locals, status, frames, nchats, budget, base, saved, received>>

\* server.py:409 and the right-hand side of 410: the length test and the slice.
ChatTrim(t) ==
    /\ pc[t] = "trim"
    /\ resp' = NoResponse
    /\ IF Missing(session_id[t])
         THEN Abort500(t)
         ELSE /\ IF Len(conversations[session_id[t]]) > W
                   THEN /\ sliced' = [sliced EXCEPT ![t] = LastN(conversations[session_id[t]], W)]
                        /\ pc' = [pc EXCEPT ![t] = "store"]
                        /\ UNCHANGED <<base, alone>>
                   ELSE /\ pc' = [pc EXCEPT ![t] = "compose"]
                        /\ base' = [base EXCEPT ![t] = conversations[session_id[t]]]
                        /\ alone' = [alone EXCEPT ![t] = TRUE]
                        /\ UNCHANGED sliced
              /\ UNCHANGED <<conversations, session_id, user_message, personality, messages,
                             full_response, chunks, status, frames, nchats, budget, log, saved, overlap, received>>

\* server.py:410, the assignment: conversations[session_id] = <the slice>
ChatTrimStore(t) ==
    /\ pc[t] = "store"
    /\ resp' = NoResponse
    /\ conversations' = Store(conversations, session_id[t], sliced[t])
    /\ base' = [base EXCEPT ![t] = sliced[t]]
    /\ alone' = [Disturbed(t, {session_id[t]}) EXCEPT ![t] = TRUE]
    /\ overlap' = Overlapped(t, {session_id[t]}, {})
    /\ pc' = [pc EXCEPT ![t] = "compose"]
    /\ log' = IF Missing(session_id[t]) THEN [log EXCEPT ![session_id[t]] = sliced[t]] ELSE log
    /\ UNCHANGED <<locals, status, frames, nchats, budget, saved, received>>

\* ChatCompose, were line 421 to take the concise prompt whatever the personality.
ChatComposeConcise(t) ==
    /\ pc[t] = "compose"
    /\ resp' = NoResponse
    /\ IF Missing(session_id[t])
         THEN Abort500(t)
         ELSE /\ messages' = [messages EXCEPT ![t] =
                    <<Message("system", system_prompts["concise"])>>
                    \o conversations[session_id[t]]]
              /\ status' = [status EXCEPT ![t] = 200]
              /\ pc' = [pc EXCEPT ![t] = "start"]
              /\ UNCHANGED <<conversations, session_id, user_message, personality, sliced,
                             full_response, chunks, frames, nchats, budget, hist>>

\* ChatCompose, were line 420 to put the system message at the head of the
\* stored list itself (insert(0, ...)) instead of building a new list.
ChatComposeInPlace(t) ==
    /\ pc[t] = "compose"
    /\ resp' = NoResponse
    /\ IF Missing(session_id[t])
         THEN Abort500(t)
         ELSE /\ conversations' = [conversations EXCEPT ![session_id[t]] =
                    <<Message("system", Get(system_prompts, personality[t], system_prompts["concise"]))>>
                    \o @]
              /\ messages' = [messages EXCEPT ![t] = conversations'[session_id[t]]]
              /\ status' = [status EXCEPT ![t] = 200]
              /\ pc' = [pc EXCEPT ![t] = "start"]
              /\ UNCHANGED <<session_id, user_message, personality, sliced,
                             full_response, chunks, frames, nchats, budget, hist>>

\* server.py:420-422 and 455-462: the message list of the request, and the
\* streaming response is returned (status 200) with its generator not yet started.
ChatCompose(t) ==
    /\ pc[t] = "compose"
    /\ resp' = NoResponse
    /\ IF Missing(session_id[t])
         THEN Abort500(t)
         ELSE /\ messages' = [messages EXCEPT ![t] =
                    <<Message("system", Get(system_prompts, personality[t], system_prompts["concise"]))>>
                    \o conversations[session_id[t]]]
              /\ status' = [status EXCEPT ![t] = 200]
              /\ pc' = [pc EXCEPT ![t] = "start"]
              /\ UNCHANGED <<conversations, session_id, user_message, personality, sliced,
                             full_response, chunks, frames, nchats, budget, hist>>

\* ------------------------------------------ chat_stream.generate, the generator

Running(t) == pc[t] \in {"loop", "yielded"}

\* The generator yields frame f.
Yield(t, f) == frames' = [frames EXCEPT ![t] = Append(@, f)]

\* Except, were the handler of lines 451-453 to fall through to line 449
\* instead of ending the generator.
ExceptFallsThrough(t, e) ==
    /\ Yield(t, ErrorFrame(e))
    /\ pc' = [pc EXCEPT ![t] = "saved"]

\* server.py:451-453: except Exception as e: yield the error frame; the
\* generator ends.
Except(t, e) ==
    /\ Yield(t, ErrorFrame(e))
    /\ pc' = [pc EXCEPT ![t] = "closed"]

\* GenCall, were the call of lines 427-434 made outside the try block: its
\* exception is answered 500 and no frame is streamed.
GenCallOutsideTry(t, ok) ==
    /\ pc[t] = "start"
    /\ resp' = NoResponse
    /\ IF ok
         THEN /\ full_response' = [full_response EXCEPT ![t] = ""]
              /\ pc' = [pc EXCEPT ![t] = "loop"]
              /\ UNCHANGED <<frames, status>>
         ELSE /\ status' = [status EXCEPT ![t] = 500]
              /\ pc' = [pc EXCEPT ![t] = "closed"]
              /\ UNCHANGED <<full_response, frames>>
    /\ UNCHANGED <<conversations, session_id, user_message, personality, sliced, messages,
                   chunks, nchats, budget, hist>>

\* server.py:427-436: the streaming call to the capability, which answers
\* with a stream (ok) or raises.
GenCall(t, ok) ==
    /\ pc[t] = "start"
    /\ resp' = NoResponse
    /\ IF ok
         THEN /\ full_response' = [full_response EXCEPT ![t] = ""]
              /\ pc' = [pc EXCEPT ![t] = "loop"]
              /\ UNCHANGED frames
         ELSE /\ Except(t, CapabilityError)
              /\ UNCHANGED full_response
    /\ UNCHANGED <<conversations, session_id, user_message, personality, sliced, messages,
                   chunks, status, nchats, budget, hist>>

\* GenChunk, were line 438 (the test of delta.content) missing.
GenChunkUntested(t, c) ==
    /\ Running(t)
    /\ resp' = NoResponse
    /\ chunks' = [chunks EXCEPT ![t] = @ + 1]
    /\ full_response' = [full_response EXCEPT ![t] = @ \o c]
    /\ Yield(t, ContentFrame(c))
    /\ received' = [received EXCEPT ![t] = IF Truthy(c) THEN Append(@, c) ELSE @]
    /\ pc' = [pc EXCEPT ![t] = "yielded"]
    /\ UNCHANGED <<conversations, session_id, user_message, personality, sliced, messages,
                   status, nchats, budget, log, base, alone, saved, overlap>>

\* server.py:437-441: the stream delivers a chunk whose delta.content is c.
GenChunk(t, c) ==
    /\ Running(t)
    /\ resp' = NoResponse
    /\ chunks' = [chunks EXCEPT ![t] = @ + 1]
    /\ IF Truthy(c)
         THEN /\ full_response' = [full_response EXCEPT ![t] = @ \o c]
              /\ Yield(t, ContentFrame(c))
              /\ received' = [received EXCEPT ![t] = Append(@, c)]
              /\ pc' = [pc EXCEPT ![t] = "yielded"]
         ELSE /\ pc' = [pc EXCEPT ![t] = "loop"]
              /\ UNCHANGED <<full_response, frames, received>>
    /\ UNCHANGED <<conversations, session_id, user_message, personality, sliced, messages,
                   status, nchats, budget, log, base, alone, saved, overlap>>

\* GenRaise, were the handler of lines 451-453 to store the text accumulated
\* so far before it yields the error frame.
GenRaiseKeepsPartial(t) ==
    /\ Running(t)
    /\ resp' = NoResponse
    /\ Except(t, CapabilityError)
    /\ conversations' = IF Missing(session_id[t]) THEN conversations
                        ELSE [conversations EXCEPT ![session_id[t]] =
                                  Append(@, Message("assistant", full_response[t]))]
    /\ UNCHANGED <<locals, status, nchats, budget, hist>>

\* server.py:437: the stream raises instead of delivering its next chunk.
GenRaise(t) ==
    /\ Running(t)
    /\ resp' = NoResponse
    /\ Except(t, CapabilityError)
    /\ UNCHANGED <<conversations, locals, status, nchats, budget, hist>>

\* GenSave, were line 449 to come before lines 443-447: the done frame is
\* yielded while the assistant message is not yet stored.
GenSaveAfterDone(t) ==
    /\ Running(t)
    /\ resp' = NoResponse
    /\ Yield(t, DoneFrame)
    /\ pc' = [pc EXCEPT ![t] = "saved"]
    /\ UNCHANGED <<conversations, locals, status, nchats, budget, hist>>

\* GenSave, were lines 444-447 to look the session up as line 400 does
\* (get-or-create) before they append.
GenSaveCreates(t) ==
    /\ Running(t)
    /\ resp' = NoResponse
    /\ conversations' = Store(conversations, session_id[t],
                              Append(IF Missing(session_id[t]) THEN << >> ELSE conversations[session_id[t]],
                                     Message("assistant", full_response[t])))
    /\ log' = [log EXCEPT ![session_id[t]] = Append(@, Message("assistant", full_response[t]))]
    /\ saved' = [saved EXCEPT ![t] = <<Message("assistant", full_response[t])>>]
    /\ alone' = Disturbed(t, {session_id[t]})
    /\ overlap' = Overlapped(t, {session_id[t]}, {})
    /\ pc' = [pc EXCEPT ![t] = "saved"]
    /\ UNCHANGED <<frames, base, received>>
    /\ UNCHANGED <<locals, status, nchats, budget>>

\* server.py:437, 443-447: the stream is exhausted; the accumulated text is
\* appended to conversations[session_id], which raises KeyError when the key is gone.
GenSave(t) ==
    /\ Running(t)
    /\ resp' = NoResponse
    /\ IF Missing(session_id[t])
         THEN /\ Except(t, KeyErrorText(session_id[t]))
              /\ UNCHANGED <<conversations, hist>>
         ELSE /\ conversations' = [conversations EXCEPT ![session_id[t]] =
                                        Append(@, Message("assistant", full_response[t]))]
              /\ log' = [log EXCEPT ![session_id[t]] =
                                        Append(@, Message("assistant", full_response[t]))]
              /\ saved' = [saved EXCEPT ![t] = <<Message("assistant", full_response[t])>>]
              /\ alone' = Disturbed(t, {session_id[t]})
              /\ overlap' = Overlapped(t, {session_id[t]}, {})
              /\ pc' = [pc EXCEPT ![t] = "saved"]
              /\ UNCHANGED <<frames, base, received>>
    /\ UNCHANGED <<locals, status, nchats, budget>>

\* GenDone, were line 449 missing: the generator ends without its done frame.
GenDoneSilent(t) ==
    /\ pc[t] = "saved"
    /\ resp' = NoResponse
    /\ pc' = [pc EXCEPT ![t] = "closed"]
    /\ UNCHANGED <<conversations, locals, status, frames, nchats, budget, hist>>

\* server.py:449: yield the done frame; the generator ends.
GenDone(t) ==
    /\ pc[t] = "saved"
    /\ resp' = NoResponse
    /\ Yield(t, DoneFrame)
    /\ pc' = [pc EXCEPT ![t] = "closed"]
    /\ UNCHANGED <<conversations, locals, status, nchats, budget, hist>>

\* Disconnect, were the close of the generator handled as an error is
\* (except BaseException) and the text accumulated so far stored.
DisconnectKeepsPartial(t) ==
    /\ pc[t] \in {"start", "yielded"}
    /\ resp' = NoResponse
    /\ pc' = [pc EXCEPT ![t] = "aborted"]
    /\ conversations' = IF Missing(session_id[t]) THEN conversations
                        ELSE [conversations EXCEPT ![session_id[t]] =
                                  Append(@, Message("assistant", full_response[t]))]
    /\ UNCHANGED <<locals, status, frames, nchats, budget, hist>>

\* The caller disconnects: the server closes the generator where it is
\* suspended (before its first step, or at the yield of a content frame).
\* GeneratorExit is no Exception: lines 451-453 do not run.
Disconnect(t) ==
    /\ pc[t] \in {"start", "yielded"}
    /\ resp' = NoResponse
    /\ pc' = [pc EXCEPT ![t] = "aborted"]
    /\ UNCHANGED <<conversations, locals, status, frames, nchats, budget, hist>>

\* The response is complete and the thread serves its next request.
Return(t) ==
    /\ pc[t] \in {"closed", "aborted"}
    /\ resp' = NoResponse
    /\ pc' = [pc EXCEPT ![t] = "idle"]
    /\ session_id' = [session_id EXCEPT ![t] = ""]
    /\ user_message' = [user_message EXCEPT ![t] = ""]
    /\ personality' = [personality EXCEPT ![t] = ""]
    /\ sliced' = [sliced EXCEPT ![t] = << >>]
    /\ messages' = [messages EXCEPT ![t] = << >>]
    /\ full_response' = [full_response EXCEPT ![t] = ""]
    /\ chunks' = [chunks EXCEPT ![t] = 0]
    /\ status' = [status EXCEPT ![t] = 0]
    /\ frames' = [frames EXCEPT ![t] = << >>]
    /\ base' = [base EXCEPT ![t] = << >>]
    /\ alone' = [alone EXCEPT ![t] = TRUE]
    /\ saved' = [saved EXCEPT ![t] = << >>]
    /\ received' = [received EXCEPT ![t] = << >>]
    /\ UNCHANGED <<conversations, nchats, budget, log, overlap>>

\* ------------------------------------------- clear_history, cleanup_sessions

\* cleared, were line 506 not to test that the key is known.
clearedAlways(c, sid) == Store(c, sid, << >>)

\* cleared, were line 507 to reset the history of every known session.
clearedEvery(c, sid) == IF sid \in DOMAIN c THEN [k \in DOMAIN c |-> << >>] ELSE c

\* server.py:506-507: the store c once the history of sid is reset.
cleared(c, sid) == IF sid \in DOMAIN c THEN [c EXCEPT ![sid] = << >>] ELSE c

\* server.py:500-510
clear_history(data) ==
    LET sid == Get(data, "session_id", "default") IN
    /\ conversations' = cleared(conversations, sid)
    /\ log' = [log EXCEPT ![sid] = << >>]
    /\ alone' = Disturbed(0, {sid})
    /\ overlap' = Overlapped(0, {sid}, {sid})
    /\ resp' = Response("clear_history", data, 200, [status |-> "cleared"], << >>)
    /\ UNCHANGED <<pc, locals, status, frames, nchats, budget, base, saved, received>>

\* cleanup_sessions, were line 515 (the count) to come after line 516 (the clear).
cleanup_sessions_counts_late ==
    /\ conversations' = << >>
    /\ log' = [k \in Keys |-> << >>]
    /\ alone' = Disturbed(0, Keys)
    /\ overlap' = Overlapped(0, Keys, Keys)
    /\ resp' = Response("cleanup_sessions", << >>, 200,
                        [status |-> "cleaned", count |-> Cardinality(DOMAIN conversations')], << >>)
    /\ UNCHANGED <<pc, locals, status, frames, nchats, budget, base, saved, received>>

\* server.py:513-519
cleanup_sessions ==
    /\ conversations' = << >>
    /\ log' = [k \in Keys |-> << >>]
    /\ alone' = Disturbed(0, Keys)
    /\ overlap' = Overlapped(0, Keys, Keys)
    /\ resp' = Response("cleanup_sessions", << >>, 200,
                        [status |-> "cleaned", count |-> Cardinality(DOMAIN conversations)], << >>)
    /\ UNCHANGED <<pc, locals, status, frames, nchats, budget, base, saved, received>>

\* ------------------------------ quick_action, analyze_context, auto_suggest
\* These handlers slice and search their texts, so a text is here a sequence
\* of characters, and a literal part of an f-string is one element of it.

Lit(s) == <<s>>

\* text[:n]
Prefix(text, n) == SubSeq(text, 1, IF Len(text) < n THEN Len(text) ELSE n)

\* sep.join(parts)
RECURSIVE Join(_, _)
Join(parts, sep) ==
    IF parts = << >> THEN << >>
    ELSE IF Len(parts) = 1 THEN parts[1]
    ELSE parts[1] \o sep \o Join(Tail(parts), sep)

\* `word in text` for str
Contains(text, word) ==
    \E i \in 1..Len(text) :
        /\ i + Len(word) - 1 <= Len(text)
        /\ SubSeq(text, i, i + Len(word) - 1) = word

UpperCase == <<"A", "B", "C", "D", "E", "F", "G", "H", "I", "J", "K", "L", "M",
               "N", "O", "P", "Q", "R", "S", "T", "U", "V", "W", "X", "Y", "Z">>
LowerCase == <<"a", "b", "c", "d", "e", "f", "g", "h", "i", "j", "k", "l", "m",
               "n", "o", "p", "q", "r", "s", "t", "u", "v", "w", "x", "y", "z">>

\* str.lower()
Lower(text) ==
    [i \in 1..Len(text) |->
        IF \E j \in 1..Len(UpperCase) : UpperCase[j] = text[i]
        THEN LowerCase[CHOOSE j \in 1..Len(UpperCase) : UpperCase[j] = text[i]]
        ELSE text[i]]

\* The capability's answer to a single-shot call: it raises, or returns a text.
Raised == [raises |-> TRUE, text |-> << >>]
Returned(text) == [raises |-> FALSE, text |-> text]

\* server.py:475-480
prompts(text) ==
    [summarize |-> Lit("Summarize this text concisely:\n\n") \o text,
     translate |-> Lit("Translate this text to English:\n\n") \o text,
     explain   |-> Lit("Explain this in simple terms:\n\n") \o text,
     code      |-> Lit("Explain this code:\n\n") \o text]

\* quick_action, were lines 472-473 (the test of text) missing.
quick_action_unchecked(data, answer) ==
    LET action == Get(data, "action", "summarize")
        text   == Get(data, "text", << >>)
        sent   == <<Message("user", Get(prompts(text), action, prompts(text)["summarize"]))>>
    IN  /\ resp' =
            IF answer.raises
            THEN Response("quick_action", data, 500, [error |-> CapabilityError], <<sent>>)
            ELSE Response("quick_action", data, 200, [response |-> answer.text], <<sent>>)
        /\ UNCHANGED <<conversations, pc, locals, status, frames, nchats, budget, hist>>

\* server.py:465-497
quick_action(data, answer) ==
    LET action == Get(data, "action", "summarize")
        text   == Get(data, "text", << >>)
        sent   == <<Message("user", Get(prompts(text), action, prompts(text)["summarize"]))>>
    IN  /\ resp' =
            IF text = << >>
            THEN Response("quick_action", data, 400, [error |-> "No text provided"], << >>)
            ELSE IF answer.raises
            THEN Response("quick_action", data, 500, [error |-> CapabilityError], <<sent>>)
            ELSE Response("quick_action", data, 200, [response |-> answer.text], <<sent>>)
        /\ UNCHANGED <<conversations, pc, locals, status, frames, nchats, budget, hist>>

\* full_context, were line 262 to give the transcript what the screen text
\* left of one budget for both.
full_context_shared(screen_context, transcript_context) ==
    Join((IF screen_context # << >>
          THEN <<Lit("**Screen Content (OCR):**\n") \o Prefix(screen_context, AnalysisBudget)>>
          ELSE << >>)
         \o
         (IF transcript_context # << >>
          THEN <<Lit("**Live Transcript (Audio):**\n")
                 \o Prefix(transcript_context,
                           AnalysisBudget - Len(Prefix(screen_context, AnalysisBudget)))>>
          ELSE << >>),
         Lit("\n\n"))

\* server.py:255-264
full_context(screen_context, transcript_context) ==
    Join((IF screen_context # << >>
          THEN <<Lit("**Screen Content (OCR):**\n") \o Prefix(screen_context, AnalysisBudget)>>
          ELSE << >>)
         \o
         (IF transcript_context # << >>
          THEN <<Lit("**Live Transcript (Audio):**\n") \o Prefix(transcript_context, AnalysisBudget)>>
          ELSE << >>),
         Lit("\n\n"))

\* server.py:267-287
analysis_prompt(playbook_context, context, user_question, playbook_name) ==
    IF user_question # << >>
    THEN playbook_context \o Lit("\n\n") \o context
         \o Lit("\n\n---\nUser's Question: ") \o user_question
         \o Lit("\n\nProvide a helpful, concise answer based on the context above.")
    ELSE playbook_context \o Lit("\n\n") \o context
         \o Lit("\n\n---\nAnalyze this context and provide:\n1. A brief summary of what's happening\n2. Key insights or action items\n3. Helpful suggestions based on the ")
         \o playbook_name \o Lit(" scenario\n\nBe concise and actionable.")

\* analyze_context, were line 252 to test the question in place of the transcript.
analyze_context_question(data, answer) ==
    LET screen_context     == Get(data, "screen_context", << >>)
        transcript_context == Get(data, "transcript_context", << >>)
        user_question      == Get(data, "question", << >>)
        playbook_name      == Get(data, "playbook_name", Lit("General"))
        playbook_system    == Get(data, "playbook_system",
                                  Lit("You are a helpful AI assistant. Be concise and direct."))
        playbook_context   == Get(data, "playbook_context",
                                  Lit("Provide helpful context based on what you see and hear."))
        sent == <<Message("system", playbook_system),
                  Message("user", analysis_prompt(playbook_context,
                                      full_context(screen_context, transcript_context),
                                      user_question, playbook_name))>>
    IN  /\ resp' =
            IF screen_context = << >> /\ user_question = << >>
            THEN Response("analyze_context", data, 400, [error |-> "No context provided"], << >>)
            ELSE IF answer.raises
            THEN Response("analyze_context", data, 500,
                          [error |-> "Analysis failed: " \o CapabilityError, status |-> "error"],
                          <<sent>>)
            ELSE Response("analyze_context", data, 200,
                          [analysis |-> answer.text, status |-> "success"], <<sent>>)
        /\ UNCHANGED <<conversations, pc, locals, status, frames, nchats, budget, hist>>

\* server.py:238-314
analyze_context(data, answer) ==
    LET screen_context     == Get(data, "screen_context", << >>)
        transcript_context == Get(data, "transcript_context", << >>)
        user_question      == Get(data, "question", << >>)
        playbook_name      == Get(data, "playbook_name", Lit("General"))
        playbook_system    == Get(data, "playbook_system",
                                  Lit("You are a helpful AI assistant. Be concise and direct."))
        playbook_context   == Get(data, "playbook_context",
                                  Lit("Provide helpful context based on what you see and hear."))
        sent == <<Message("system", playbook_system),
                  Message("user", analysis_prompt(playbook_context,
                                      full_context(screen_context, transcript_context),
                                      user_question, playbook_name))>>
    IN  /\ resp' =
            IF screen_context = << >> /\ transcript_context = << >>
            THEN Response("analyze_context", data, 400, [error |-> "No context provided"], << >>)
            ELSE IF answer.raises
            THEN Response("analyze_context", data, 500,
                          [error |-> "Analysis failed: " \o CapabilityError, status |-> "error"],
                          <<sent>>)
            ELSE Response("analyze_context", data, 200,
                          [analysis |-> answer.text, status |-> "success"], <<sent>>)
        /\ UNCHANGED <<conversations, pc, locals, status, frames, nchats, budget, hist>>

\* server.py:331-336
suggest_context(screen, transcript) ==
    (IF screen # << >> THEN Lit("[SCREEN]: ") \o Prefix(screen, SuggestBudget) \o Lit("\n\n") ELSE << >>)
    \o
    (IF transcript # << >> THEN Lit("[AUDIO]: ") \o Prefix(transcript, SuggestBudget) ELSE << >>)

\* server.py:338-346
suggest_prompt(playbook_context, context) ==
    playbook_context \o Lit("\n\nContext:\n") \o context
    \o Lit("\n\nProvide a SHORT, actionable suggestion (2-3 sentences max).\nIf there's a question, answer it directly.\nIf there's a problem, provide a solution.\nBe extremely concise.")

\* detected_type, were the tests of lines 367 and 369 in the other order.
detected_type_action_first(response_text, context) ==
    LET lower_text == Prefix(Lower(response_text), LeadLength) IN
    IF Contains(context, <<"?">>)
       \/ Contains(lower_text, <<"q", "u", "e", "s", "t", "i", "o", "n">>)
    THEN "question"
    ELSE IF \/ Contains(lower_text, <<"a", "c", "t", "i", "o", "n">>)
            \/ Contains(lower_text, <<"t", "o", "d", "o">>)
            \/ Contains(lower_text, <<"s", "h", "o", "u", "l", "d">>)
    THEN "action"
    ELSE IF \/ Contains(lower_text, <<"c", "o", "d", "e">>)
            \/ Contains(lower_text, <<"e", "r", "r", "o", "r">>)
            \/ Contains(lower_text, <<"f", "u", "n", "c", "t", "i", "o", "n">>)
    THEN "code"
    ELSE "insight"

\* server.py:362-370
detected_type(response_text, context) ==
    LET lower_text == Prefix(Lower(response_text), LeadLength) IN
    IF Contains(context, <<"?">>)
       \/ Contains(lower_text, <<"q", "u", "e", "s", "t", "i", "o", "n">>)
    THEN "question"
    ELSE IF \/ Contains(lower_text, <<"c", "o", "d", "e">>)
            \/ Contains(lower_text, <<"e", "r", "r", "o", "r">>)
            \/ Contains(lower_text, <<"f", "u", "n", "c", "t", "i", "o", "n">>)
    THEN "code"
    ELSE IF \/ Contains(lower_text, <<"a", "c", "t", "i", "o", "n">>)
            \/ Contains(lower_text, <<"t", "o", "d", "o">>)
            \/ Contains(lower_text, <<"s", "h", "o", "u", "l", "d">>)
    THEN "action"
    ELSE "insight"

\* auto_suggest, were it to keep its suggestion in the history of the
\* 'default' session as a chat does.
auto_suggest_remembers(data, answer) ==
    LET transcript       == Get(data, "transcript", << >>)
        screen           == Get(data, "screen", << >>)
        playbook_system  == Get(data, "playbook_system", Lit("You are a helpful AI assistant."))
        playbook_context == Get(data, "playbook_context", << >>)
        context          == suggest_context(screen, transcript)
        sent == <<Message("system", playbook_system \o Lit(" Be extremely concise.")),
                  Message("user", suggest_prompt(playbook_context, context))>>
    IN  /\ resp' =
            IF transcript = << >> /\ screen = << >>
            THEN Response("auto_suggest", data, 400, [error |-> "No context provided"], << >>)
            ELSE IF answer.raises
            THEN Response("auto_suggest", data, 200, <<[error |-> CapabilityError], 500>>, <<sent>>)
            ELSE Response("auto_suggest", data, 200,
                          [suggestion |-> answer.text,
                           detected_type |-> detected_type(answer.text, context),
                           status |-> "success"], <<sent>>)
        /\ conversations' =
            IF (transcript = << >> /\ screen = << >>) \/ answer.raises THEN conversations
            ELSE Store(conversations, "default",
                       Append(Get(conversations, "default", << >>),
                              Message("assistant", answer.text)))
        /\ UNCHANGED <<pc, locals, status, frames, nchats, budget, hist>>

\* server.py:317-382.  Line 382 hands jsonify two arguments: the body is the
\* JSON array [{"error": ...}, 500] and the status stays 200.
auto_suggest(data, answer) ==
    LET transcript       == Get(data, "transcript", << >>)
        screen           == Get(data, "screen", << >>)
        playbook_system  == Get(data, "playbook_system", Lit("You are a helpful AI assistant."))
        playbook_context == Get(data, "playbook_context", << >>)
        context          == suggest_context(screen, transcript)
        sent == <<Message("system", playbook_system \o Lit(" Be extremely concise.")),
                  Message("user", suggest_prompt(playbook_context, context))>>
    IN  /\ resp' =
            IF transcript = << >> /\ screen = << >>
            THEN Response("auto_suggest", data, 400, [error |-> "No context provided"], << >>)
            ELSE IF answer.raises
            THEN Response("auto_suggest", data, 200, <<[error |-> CapabilityError], 500>>, <<sent>>)
            ELSE Response("auto_suggest", data, 200,
                          [suggestion |-> answer.text,
                           detected_type |-> detected_type(answer.text, context),
                           status |-> "success"], <<sent>>)
        /\ UNCHANGED <<conversations, pc, locals, status, frames, nchats, budget, hist>>

\* ------------------------------------------------------- specification

\* One chat request at a time (thread 1), its stream of at most MaxChunks
\* chunks, with clear_history and cleanup_sessions requests served meanwhile.
Next ==
    \/ \E data \in ChatBodies(nchats + 1) : ChatStream(1, data)
    \/ ChatCreate(1)
    \/ ChatAppend(1)
    \/ ChatTrim(1)
    \/ ChatTrimStore(1)
    \/ ChatCompose(1)
    \/ \E ok \in BOOLEAN : GenCall(1, ok)
    \/ chunks[1] < MaxChunks /\ \E c \in Fragments(chunks[1] + 1) : GenChunk(1, c)
    \/ GenRaise(1)
    \/ GenSave(1)
    \/ GenDone(1)
    \/ Disconnect(1)
    \/ Return(1)
    \/ \E data \in ClearBodies : clear_history(data)
    \/ cleanup_sessions

Spec == Init /\ [][Next]_vars

\* A step of the generator of thread t.
GenStep(t) ==
    \/ \E ok \in BOOLEAN : GenCall(t, ok)
    \/ chunks[t] < MaxChunks /\ \E c \in Fragments(chunks[t] + 1) : GenChunk(t, c)
    \/ GenRaise(t)
    \/ GenSave(t)
    \/ GenDone(t)

\* Spec with the generators kept running: while the caller reads, the server
\* thread resumes the generator, and the capability, whose stream has at most
\* MaxChunks chunks, delivers, ends or raises.
SpecLive == Spec /\ \A t \in Threads : WF_vars(GenStep(t))

\* One session, filled from the fresh store past its window: the callers send
\* neither session_id nor personality, and a stream has at most one chunk.
WindowBodies == Bodies([message : SentMessages(nchats + 1)])

InitWindow == Fresh(MaxChatsWindow)

NextWindow ==
    \/ \E data \in WindowBodies : ChatStream(1, data)
    \/ ChatCreate(1)
    \/ ChatAppend(1)
    \/ ChatTrim(1)
    \/ ChatTrimStore(1)
    \/ ChatCompose(1)
    \/ \E ok \in BOOLEAN : GenCall(1, ok)
    \/ chunks[1] < MaxChunksWindow /\ \E c \in Fragments(chunks[1] + 1) : GenChunk(1, c)
    \/ GenRaise(1)
    \/ GenSave(1)
    \/ GenDone(1)
    \/ Disconnect(1)
    \/ Return(1)
    \/ \E data \in ClearBodies : clear_history(data)
    \/ cleanup_sessions

SpecWindow == InitWindow /\ [][NextWindow]_vars

\* Chat requests served concurrently, one per thread, on the 'default' session
\* (no clear_history and no cleanup_sessions meanwhile).  The i-th chunk
\* of the stream of thread t carries the empty content or the text "t<t>f<i>",
\* so that the streams differ.
RaceFragments(t, i) == {"", "t" \o NatStr(t) \o "f" \o NatStr(i)}

InitRace == Fresh(MaxChatsRace) \/ Warm(MaxChatsRace)

NextRace ==
    \/ \E t \in Threads :
          \/ \E data \in WindowBodies : ChatStream(t, data)
          \/ ChatCreate(t)
          \/ ChatAppend(t)
          \/ ChatTrim(t)
          \/ ChatTrimStore(t)
          \/ ChatCompose(t)
          \/ \E ok \in BOOLEAN : GenCall(t, ok)
          \/ chunks[t] < MaxChunksRace /\ \E c \in RaceFragments(t, chunks[t] + 1) : GenChunk(t, c)
          \/ GenRaise(t)
          \/ GenSave(t)
          \/ GenDone(t)
          \/ Disconnect(t)
          \/ Return(t)

SpecRace == InitRace /\ [][NextRace]_vars

WarmReached == ~(conversations = [default |-> WarmHistory] /\ pc[1] = "idle")

\* The handlers that answer at once, on the fresh store or on a full window.
SentTexts == {<< >>, <<"o", "k", "?">>}
Replies == {<<"O", "K">>, <<"T", "o", "d", "o">>}
Answers == {Returned(r) : r \in Replies} \cup {Raised}

QuickBodies ==
    Bodies([action : {"summarize", "translate", "explain", "code", "bogus"},
            text : SentTexts])

AnalyzeBodies ==
    Bodies([screen_context : SentTexts, transcript_context : SentTexts,
            question : {<< >>, <<"w", "h", "y">>},
            playbook_name : {Lit("Sales")}, playbook_system : {Lit("You sell.")},
            playbook_context : {Lit("A sales call.")}])

SuggestBodies ==
    Bodies([transcript : SentTexts, screen : SentTexts,
            playbook_name : {Lit("Sales")}, playbook_system : {Lit("You sell.")},
            playbook_context : {Lit("A sales call.")}])

NextOneShot ==
    \/ \E data \in QuickBodies, answer \in Answers : quick_action(data, answer)
    \/ \E data \in AnalyzeBodies, answer \in Answers : analyze_context(data, answer)
    \/ \E data \in SuggestBodies, answer \in Answers : auto_suggest(data, answer)
    \/ \E data \in ClearBodies : clear_history(data)
    \/ cleanup_sessions

SpecOneShot == Init /\ [][NextOneShot]_vars

\* auto_suggest alone, on contexts with and without a '?', one of them longer
\* than its budget with its only '?' past it, and on suggestions that meet
\* the rules of the classifier, several at once, in either case of letters,
\* and across the end of the leading text.
Pad(n) == [i \in 1..n |-> "a"]

LongQuestion == Pad(SuggestBudget) \o <<"?">>

SuggestTexts == {<< >>, <<"o", "k">>, <<"o", "k", "?">>, LongQuestion}

SuggestReplies ==
    {<<"Q", "u", "e", "s", "t", "i", "o", "n">>,
     <<"A", "c", "t", "i", "o", "n", " ", "q", "u", "e", "s", "t", "i", "o", "n">>,
     <<"C", "o", "d", "e", " ", "t", "o", "d", "o">>,
     <<"F", "u", "n", "c", "t", "i", "o", "n", " ", "f", "a", "i", "l", "e", "d">>,
     <<"S", "h", "o", "u", "l", "d">>,
     <<"f", "i", "n", "e">>,
     Pad(LeadLength - 4) \o <<"c", "o", "d", "e">>,
     Pad(LeadLength - 3) \o <<"c", "o", "d", "e">>}

NextSuggest ==
    \E data \in Bodies([transcript : SuggestTexts, screen : SuggestTexts]),
       answer \in {Returned(r) : r \in SuggestReplies} \cup {Raised} :
        auto_suggest(data, answer)

SpecSuggest == Init /\ [][NextSuggest]_vars

\* analyze_context and auto_suggest on sources that are empty, short, and one
\* character longer than their budget.
LongContext == Pad(AnalysisBudget) \o <<"!">>

AnalysisTexts == {<< >>, <<"o", "k">>, LongContext}

NextTruncate ==
    \/ \E data \in Bodies([screen_context : AnalysisTexts, transcript_context : AnalysisTexts,
                           question : {<<"w", "h", "y">>}]),
          answer \in {Returned(<<"O", "K">>), Raised} :
           analyze_context(data, answer)
    \/ \E data \in Bodies([transcript : SuggestTexts, screen : SuggestTexts]),
          answer \in {Returned(<<"O", "K">>), Raised} :
           auto_suggest(data, answer)

SpecTruncate == Init /\ [][NextTruncate]_vars

\* ------------------------------------------------------------ properties

\* A chat handler stands between its append (line 406) and the end of its trim
\* (line 410) on session k.
Trimming(k) == \E t \in Threads : pc[t] \in {"trim", "store"} /\ session_id[t] = k

Last(seq) == seq[Len(seq)]

Min(a, b) == IF a < b THEN a ELSE b

\* The concatenation, in emission order, of the content frames of fs.
RECURSIVE ContentOf(_)
ContentOf(fs) ==
    IF fs = << >> THEN ""
    ELSE (IF DOMAIN fs[1] = {"content"} THEN fs[1].content ELSE "") \o ContentOf(Tail(fs))

\* The stream of thread t, opened for a non-empty message, has been read to its end.
StreamEnded(t) == pc[t] = "closed" /\ status[t] = 200 /\ Truthy(user_message[t])

\* C1: every stored session history has at most W messages in every state
\* between two handler steps, the state right after a stream appended its
\* assistant message included (a handler between its append and its trim is
\* not looked at).
C1_WindowBound ==
    \A k \in DOMAIN conversations :
        ~Trimming(k) => Len(conversations[k]) <= W

\* C2: with no clear in between and no request overlapping a chat on the
\* session, the stored history of a session to which N messages were appended
\* has length min(N, W) and is the last min(N, W) of them, in order.
C2_LastWindow ==
    \A k \in DOMAIN conversations :
        (~Trimming(k) /\ ~overlap[k]) =>
            /\ Len(conversations[k]) = Min(Len(log[k]), W)
            /\ conversations[k] = LastN(log[k], W)

\* C3: every frame carries exactly one of the keys content, done, error; every
\* frame but the last is a content frame (nothing follows a terminal frame,
\* and there are never two); a stream read to its end ends with a done frame
\* or an error frame.
C3_FrameGrammar ==
    \A t \in Threads :
        /\ \A i \in 1..Len(frames[t]) :
               DOMAIN frames[t][i] \in {{"content"}, {"done"}, {"error"}}
        /\ \A i \in 1..(Len(frames[t]) - 1) : DOMAIN frames[t][i] = {"content"}
        /\ pc[t] \notin {"closed", "idle"} =>
               \A i \in 1..Len(frames[t]) : DOMAIN frames[t][i] = {"content"}
        /\ StreamEnded(t) =>
               /\ Len(frames[t]) >= 1
               /\ DOMAIN Last(frames[t]) \in {{"done"}, {"error"}}

\* A stream read to its end: two content frames, then the done frame.
C3_Witness ==
    \E t \in Threads :
        /\ StreamEnded(t)
        /\ frames[t] = <<ContentFrame("f1"), ContentFrame("f2"), DoneFrame>>

\* C4: the step in which the capability's stream is exhausted without raising
\* appends exactly one assistant message to the end of the session's history,
\* whose content is the concatenation of the content frames emitted.
C4_ExhaustedPersists ==
    [][\A t \in Threads :
          GenSave(t) =>
              /\ session_id[t] \in DOMAIN conversations
              /\ session_id[t] \in DOMAIN conversations'
              /\ conversations'[session_id[t]] =
                     Append(conversations[session_id[t]],
                            Message("assistant", ContentOf(frames'[t])))]_vars

\* C5: a stream that ended with the capability's error persisted no assistant
\* message, and with no other request on the session in between the stored
\* history is the one that stood right after the user message was appended
\* and trimmed.
C5_RaiseNotPersisted ==
    \A t \in Threads :
        (StreamEnded(t) /\ Last(frames[t]) = ErrorFrame(CapabilityError)) =>
            /\ saved[t] = << >>
            /\ alone[t] =>
                   /\ session_id[t] \in DOMAIN conversations
                   /\ conversations[session_id[t]] = base[t]

\* The capability raised after one fragment was relayed, nothing else touched
\* the session, and the history ends with the user message.
C5_Witness ==
    \E t \in Threads :
        /\ StreamEnded(t)
        /\ frames[t] = <<ContentFrame("f1"), ErrorFrame(CapabilityError)>>
        /\ alone[t]
        /\ conversations[session_id[t]] = base[t]
        /\ Last(base[t]) = Message("user", user_message[t])

\* C6: where the done frame of a stream has been emitted, its assistant
\* message has been persisted; and where it has been persisted, the generator
\* has left its loop and the message is the concatenation of all the content
\* frames of the stream: none is emitted after it.
C6_PersistBeforeDone ==
    \A t \in Threads :
        /\ (\E i \in 1..Len(frames[t]) : frames[t][i] = DoneFrame) => saved[t] # << >>
        /\ saved[t] # << >> =>
               /\ pc[t] \in {"saved", "closed"}
               /\ saved[t] = <<Message("assistant", ContentOf(frames[t]))>>

\* The assistant message stands at the end of the history and the done frame
\* is not yet emitted.
C6_Witness ==
    \E t \in Threads :
        /\ pc[t] = "saved"
        /\ frames[t] = <<ContentFrame("f1"), ContentFrame("f2")>>
        /\ saved[t] = <<Message("assistant", "f1f2")>>
        /\ Last(conversations[session_id[t]]) = Message("assistant", "f1f2")

\* C7: a chat request with an absent or empty message is answered 200 with a
\* stream of exactly one frame, the error frame "Empty message".
C7_EmptyMessageFrame ==
    \A t \in Threads :
        (pc[t] = "closed" /\ ~Truthy(user_message[t])) =>
            /\ status[t] = 200
            /\ frames[t] = <<ErrorFrame("Empty message")>>

\* C8: a quick action whose text is absent or empty is answered 400 with an
\* error field, whatever the action key, and nothing is sent to the capability.
C8_QuickActionNeedsText ==
    (resp.op = "quick_action" /\ Get(resp.request, "text", << >>) = << >>) =>
        /\ resp.status = 400
        /\ "error" \in DOMAIN resp.body
        /\ resp.calls = << >>

\* An unknown action key with no text at all.
C8_Witness ==
    /\ resp.op = "quick_action"
    /\ resp.request = [action |-> "bogus"]
    /\ resp.status = 400

\* C9: context analysis with screen_context and transcript_context both empty,
\* and auto-suggest with transcript and screen both empty, are answered 400
\* with nothing sent to the capability, whatever the other fields.
C9_ContextNeeded ==
    /\ (/\ resp.op = "analyze_context"
        /\ Get(resp.request, "screen_context", << >>) = << >>
        /\ Get(resp.request, "transcript_context", << >>) = << >>)
       => (resp.status = 400 /\ resp.calls = << >>)
    /\ (/\ resp.op = "auto_suggest"
        /\ Get(resp.request, "transcript", << >>) = << >>
        /\ Get(resp.request, "screen", << >>) = << >>)
       => (resp.status = 400 /\ resp.calls = << >>)

\* Context analysis with no context, but a question and a playbook.
C9_Witness ==
    /\ resp.op = "analyze_context"
    /\ Get(resp.request, "screen_context", << >>) = << >>
    /\ Get(resp.request, "transcript_context", << >>) = << >>
    /\ Get(resp.request, "question", << >>) # << >>
    /\ "playbook_system" \in DOMAIN resp.request
    /\ resp.status = 400

\* C10: clear_history answers {status: cleared}; a known key is left with the
\* empty history and nothing else changes, an unknown key leaves the store as
\* it was (no session is created), and clearing again changes nothing.
C10_ClearHistory ==
    [][resp'.op = "clear_history" =>
          LET sid == Get(resp'.request, "session_id", "default") IN
          /\ resp'.status = 200
          /\ resp'.body = [status |-> "cleared"]
          /\ DOMAIN conversations' = DOMAIN conversations
          /\ \A k \in DOMAIN conversations :
                 conversations'[k] = IF k = sid THEN << >> ELSE conversations[k]
          /\ cleared(conversations', sid) = conversations']_vars

\* A full window on 'default' has been cleared.
C10_Witness ==
    /\ resp.op = "clear_history"
    /\ log["default"] = << >>
    /\ conversations = [default |-> << >>]
    /\ nchats = W \div 2

\* C11: cleanup_sessions answers with the number of session keys in the store
\* right before the call and leaves the store with no session; the keys it
\* counts are those of the store, which clear_history and a chat request with
\* an empty message neither add to nor remove from.
C11_CleanupCount ==
    [][/\ resp'.op = "cleanup_sessions" =>
              /\ resp'.status = 200
              /\ resp'.body = [status |-> "cleaned",
                               count |-> Cardinality(DOMAIN conversations)]
              /\ conversations' = << >>
       /\ resp'.op = "clear_history" => DOMAIN conversations' = DOMAIN conversations
       /\ \A t \in Threads :
              (pc[t] = "idle" /\ pc'[t] = "closed") =>
                  DOMAIN conversations' = DOMAIN conversations]_vars

\* Two sessions were counted and removed.
C11_Witness ==
    /\ resp.op = "cleanup_sessions"
    /\ resp.body.count = 2
    /\ conversations = << >>

\* The handler of thread t, serving a non-empty message, is past its
\* append-and-trim step (lines 403-410).
Trimmed(t) ==
    \/ pc[t] \in {"compose", "start", "loop", "yielded", "saved", "aborted"}
    \/ StreamEnded(t)

\* The messages of a list, as a set.
Range(seq) == {seq[i] : i \in 1..Len(seq)}

\* C12: no update is lost: once two concurrent chat requests on one session
\* are both past their append-and-trim step, both user messages are in the
\* stored history (the window, W = 10, evicts neither: at most MaxChatsRace
\* user messages and as many assistant messages are appended in a behaviour).
C12_NoLostUpdate ==
    \A t, u \in Threads :
        (t # u /\ Trimmed(t) /\ Trimmed(u) /\ session_id[t] = session_id[u]) =>
            /\ session_id[t] \in DOMAIN conversations
            /\ Message("user", user_message[t]) \in Range(conversations[session_id[t]])
            /\ Message("user", user_message[u]) \in Range(conversations[session_id[t]])

\* The content frames of fs, in order.
ContentFrames(fs) == SelectSeq(fs, LAMBDA f : DOMAIN f = {"content"})

RECURSIVE Concat(_)
Concat(texts) == IF texts = << >> THEN "" ELSE texts[1] \o Concat(Tail(texts))

C14_DisconnectStops ==
    [][\A t \in Threads :
          pc'[t] = "aborted" =>
              /\ pc[t] # "aborted" => conversations' = conversations
              /\ chunks'[t] = chunks[t]
              /\ frames'[t] = frames[t]
              /\ \A i \in 1..Len(frames'[t]) : DOMAIN frames'[t][i] = {"content"}
              /\ saved'[t] = << >>]_vars

\* The caller left after the first fragment: the history ends with the user
\* message.
C14_Witness ==
    \E t \in Threads :
        /\ pc[t] = "aborted"
        /\ frames[t] = <<ContentFrame("f1")>>
        /\ session_id[t] \in DOMAIN conversations
        /\ Last(conversations[session_id[t]]) = Message("user", user_message[t])

\* C15: every message stored in a session history has role user or
\* assistant; the system message is the head of the list sent to the
\* capability and of nothing stored.
C15_StoredRoles ==
    /\ \A k \in DOMAIN conversations :
           \A i \in 1..Len(conversations[k]) :
               conversations[k][i].role \in {"user", "assistant"}
    /\ \A t \in Threads :
           messages[t] # << >> =>
               /\ messages[t][1].role = "system"
               /\ \A i \in 2..Len(messages[t]) : messages[t][i].role \in {"user", "assistant"}

\* The request of an answered chat carried the teacher's system message, and
\* the stored history holds the user message and the answer only.
C15_Witness ==
    \E t \in Threads :
        /\ pc[t] = "saved"
        /\ messages[t][1] = Message("system", system_prompts["teacher"])
        /\ conversations[session_id[t]] =
               <<Message("user", user_message[t]), Message("assistant", full_response[t])>>

\* C16: with no other request overlapping it on its session, the list a chat
\* request sends to the capability is one system message, the prompt of the
\* personality asked for or the concise one when it is not a known one, then
\* the history retained after the trim: at most W + 1 entries, the last one
\* the user message of the request.  (The list is looked at while the request
\* is in flight: overlap tells of the requests that met it.)
C16_MessagesSent ==
    \A t \in Threads :
        (InFlight(t) /\ messages[t] # << >> /\ ~overlap[session_id[t]]) =>
            /\ messages[t][1] =
                   Message("system",
                           IF personality[t] \in {"concise", "casual", "formal", "teacher"}
                           THEN system_prompts[personality[t]]
                           ELSE "You are a helpful AI assistant. Be concise and direct.")
            /\ Tail(messages[t]) = base[t]
            /\ Len(messages[t]) <= W + 1
            /\ Last(messages[t]) = Message("user", user_message[t])

\* A request on a full window, with the teacher personality: the system
\* message and W retained messages.
C16_Witness ==
    \E t \in Threads :
        /\ pc[t] = "start"
        /\ ~overlap[session_id[t]]
        /\ personality[t] = "teacher"
        /\ Len(messages[t]) = W + 1
        /\ messages[t][2] = Message("assistant", "f1")

\* C17: the step in which the capability fails, on the call or while its
\* stream is read, leaves the status of the response at 200 and ends the
\* stream with an error frame that carries the capability's error text; the
\* stream holds no done frame.
C17_ErrorInBand ==
    [][\A t \in Threads :
          (GenCall(t, FALSE) \/ GenRaise(t)) =>
              /\ status'[t] = 200
              /\ pc'[t] = "closed"
              /\ Len(frames'[t]) = Len(frames[t]) + 1
              /\ Last(frames'[t]) = ErrorFrame(CapabilityError)
              /\ \A i \in 1..Len(frames'[t]) : frames'[t][i] # DoneFrame]_vars

\* The capability failed on the call itself: the error frame is the whole stream.
C17_Witness ==
    \E t \in Threads :
        /\ StreamEnded(t)
        /\ frames[t] = <<ErrorFrame(CapabilityError)>>

\* C18: a quick action, a context analysis and an auto-suggest leave the
\* session store as it was, whether they succeed or fail; a step that changes
\* the store is a step of clear_history, of cleanup_sessions or of a chat
\* request with a non-empty message.
C18_StoreFrame ==
    [][/\ resp'.op \in {"quick_action", "analyze_context", "auto_suggest"} =>
              conversations' = conversations
       /\ conversations' # conversations =>
              \/ resp'.op \in {"clear_history", "cleanup_sessions"}
              \/ \E t \in Threads : pc'[t] # pc[t] /\ Truthy(user_message'[t])]_vars

\* An auto-suggest called the capability on the full window, which stands.
C18_Witness ==
    /\ resp.op = "auto_suggest"
    /\ resp.status = 200
    /\ resp.calls # << >>
    /\ conversations = [default |-> WarmHistory]

\* An auto-suggest request was answered with a suggestion and its category.
Suggested == resp.op = "auto_suggest" /\ DOMAIN resp.body = {"suggestion", "detected_type", "status"}

\* Some word of words occurs in text.
ContainsAny(text, words) == \E w \in words : Contains(text, w)

\* C19: the category of a suggestion follows the ordered rules over the
\* lower-cased first LeadLength characters of the suggestion and the context
\* the handler composed: question, else code, else action, else insight, the
\* earlier rule winning; it is a function of the suggestion and the context
\* alone, whatever the store holds.
C19_RuleOrder ==
    Suggested =>
        LET lead    == Lower(Prefix(resp.body.suggestion, LeadLength))
            context == suggest_context(Get(resp.request, "screen", << >>),
                                       Get(resp.request, "transcript", << >>))
            question == \/ Contains(context, <<"?">>)
                        \/ Contains(lead, <<"q", "u", "e", "s", "t", "i", "o", "n">>)
            code     == ContainsAny(lead, {<<"c", "o", "d", "e">>,
                                           <<"e", "r", "r", "o", "r">>,
                                           <<"f", "u", "n", "c", "t", "i", "o", "n">>})
            action   == ContainsAny(lead, {<<"a", "c", "t", "i", "o", "n">>,
                                           <<"t", "o", "d", "o">>,
                                           <<"s", "h", "o", "u", "l", "d">>})
        IN  /\ question => resp.body.detected_type = "question"
            /\ (~question /\ code) => resp.body.detected_type = "code"
            /\ (~question /\ ~code /\ action) => resp.body.detected_type = "action"
            /\ (~question /\ ~code /\ ~action) => resp.body.detected_type = "insight"

\* A suggestion that meets the rule of code and the rule of action, on a
\* context with no '?', is code.
C19_Witness ==
    /\ Suggested
    /\ resp.request = [transcript |-> <<"o", "k">>]
    /\ resp.body.suggestion = <<"C", "o", "d", "e", " ", "t", "o", "d", "o">>
    /\ resp.body.detected_type = "code"

\* C20: when the transcript or the screen text the caller sent contains a
\* '?' anywhere, the detected type is question, whatever the suggestion.
C20_QuestionMark ==
    (/\ Suggested
     /\ \/ Contains(Get(resp.request, "transcript", << >>), <<"?">>)
        \/ Contains(Get(resp.request, "screen", << >>), <<"?">>))
    => resp.body.detected_type = "question"

\* The first min(Len(text), limit) characters of text.
Truncated(text, limit) == [i \in 1..Min(Len(text), limit) |-> text[i]]

\* A source that is not empty, cut to limit, between its label and what
\* follows it.
Source(label, text, limit, follow) ==
    IF text # << >> THEN Lit(label) \o Truncated(text, limit) \o follow ELSE << >>

\* C21: each source enters the prompt cut to its own budget (AnalysisBudget
\* in context analysis, SuggestBudget in auto-suggest), whatever the length of
\* the other: its first min(len, budget) characters, so a source within its
\* budget unchanged; and the request goes on to the capability (the cut
\* raises no error).
C21_Truncation ==
    /\ resp.op = "analyze_context" =>
           LET screen     == Get(resp.request, "screen_context", << >>)
               transcript == Get(resp.request, "transcript_context", << >>)
           IN  (screen # << >> \/ transcript # << >>) =>
                   /\ Len(resp.calls) = 1
                   /\ resp.calls[1][2].content =
                          analysis_prompt(
                              Lit("Provide helpful context based on what you see and hear."),
                              Source("**Screen Content (OCR):**\n", screen, AnalysisBudget,
                                     IF transcript # << >> THEN Lit("\n\n") ELSE << >>)
                              \o Source("**Live Transcript (Audio):**\n", transcript,
                                        AnalysisBudget, << >>),
                              Get(resp.request, "question", << >>), Lit("General"))
    /\ resp.op = "auto_suggest" =>
           LET screen     == Get(resp.request, "screen", << >>)
               transcript == Get(resp.request, "transcript", << >>)
           IN  (screen # << >> \/ transcript # << >>) =>
                   /\ Len(resp.calls) = 1
                   /\ resp.calls[1][2].content =
                          suggest_prompt(
                              << >>,
                              Source("[SCREEN]: ", screen, SuggestBudget, Lit("\n\n"))
                              \o Source("[AUDIO]: ", transcript, SuggestBudget, << >>))

\* A context analysis of a screen text over budget and a short transcript
\* succeeded.
C21_Witness ==
    /\ resp.op = "analyze_context"
    /\ resp.status = 200
    /\ Get(resp.request, "screen_context", << >>) = LongContext
    /\ Get(resp.request, "transcript_context", << >>) = <<"o", "k">>

\* C22: an auto-suggest request during which the capability raises is
\* answered with status 500 and a JSON object whose error field carries the
\* capability's error text, as a quick action is.
C22_SuggestFailure ==
    [][\A data \in SuggestBodies :
          (/\ Get(data, "transcript", << >>) # << >> \/ Get(data, "screen", << >>) # << >>
           /\ auto_suggest(data, Raised)) =>
              /\ resp'.status = 500
              /\ resp'.body = [error |-> CapabilityError]]_vars

\* C23: a history that is empty (it was cleared) stays empty until a chat
\* request appends its user message to it: the step that makes it non-empty
\* is the user append of a request, never the completion of a stream that was
\* in flight when the history was cleared (a handler between its append and
\* its trim is not looked at).
C23_ClearedStaysEmpty ==
    [][\A k \in DOMAIN conversations \cap DOMAIN conversations' :
          (conversations[k] = << >> /\ conversations'[k] # << >> /\ ~Trimming(k)) =>
              \E t \in Threads :
                  /\ pc[t] = "append" /\ pc'[t] = "trim"
                  /\ session_id[t] = k
                  /\ conversations'[k] = <<Message("user", user_message[t])>>]_vars

Streaming(t) == pc[t] \in {"start", "loop", "yielded"}

\* The terminal frames among fs.
TerminalFrames(fs) == SelectSeq(fs, LAMBDA f : DOMAIN f \in {{"done"}, {"error"}})

Affected ==
    {k \in Keys : \/ (k \in DOMAIN conversations) # (k \in DOMAIN conversations')
                  \/ /\ k \in DOMAIN conversations \cap DOMAIN conversations'
                     /\ conversations[k] # conversations'[k]}

\* C26: a step of a chat request on session key A, and a clear_history on A,
\* leave the stored history of every other key unchanged and add or remove no
\* other key; only cleanup_sessions affects more than one key.
C26_Isolation ==
    [][/\ resp'.op = "clear_history" =>
              Affected \subseteq {Get(resp'.request, "session_id", "default")}
       /\ (resp'.op \notin {"clear_history", "cleanup_sessions"} /\ Affected # {}) =>
              \E t \in Threads :
                  /\ pc'[t] # pc[t]
                  /\ session_id'[t] = session_id[t]
                  /\ Affected = {session_id[t]}
       /\ Cardinality(Affected) > 1 => resp'.op = "cleanup_sessions"]_vars

\* A chat request on 's1' ran to its done frame beside the full window of
\* 'default', which it left as it was.
C26_Witness ==
    \E t \in Threads :
        /\ StreamEnded(t)
        /\ session_id[t] = "s1"
        /\ saved[t] # << >>
        /\ DOMAIN conversations = {"default", "s1"}
        /\ conversations["default"] = WarmHistory
        /\ Len(conversations["s1"]) = 2

\* s is a contiguous suffix of l.
IsSuffix(s, l) == Len(s) <= Len(l) /\ s = SubSeq(l, Len(l) - Len(s) + 1, Len(l))

\* How many of the messages appended to session k (l) the history (c) has lost.
Evicted(c, l, k) == Len(l[k]) - Len(c[k])

\* C27: with no overlapping request on the session, the stored history is a
\* contiguous suffix of the messages appended to it since it was created or
\* last cleared, and a message is evicted only by the trim that follows the
\* append of a user message, which keeps the last W messages.
C27_SuffixOfAppended ==
    [][\A k \in DOMAIN conversations' :
          ~overlap'[k] =>
              /\ IsSuffix(conversations'[k], log'[k])
              /\ (/\ k \in DOMAIN conversations
                  /\ ~overlap[k]
                  /\ Evicted(conversations', log', k) > Evicted(conversations, log, k)) =>
                    \E t \in Threads :
                        /\ pc[t] = "store" /\ pc'[t] = "compose"
                        /\ session_id[t] = k
                        /\ Last(log[k]) = Message("user", user_message[t])
                        /\ log'[k] = log[k]
                        /\ conversations'[k] = LastN(conversations[k], W)]_vars

\* A request on a full window ran alone to its end: the oldest message was
\* evicted and the W + 1 stored ones are the last that were appended.
C27_Witness ==
    \E t \in Threads :
        /\ StreamEnded(t)
        /\ saved[t] # << >>
        /\ session_id[t] \in DOMAIN conversations
        /\ ~overlap[session_id[t]]
        /\ Len(conversations[session_id[t]]) = W + 1
        /\ Len(log[session_id[t]]) = W + 2
        /\ conversations[session_id[t]] = Tail(log[session_id[t]])

\* C28: a chat request whose message is absent or empty changes nothing: it
\* leaves the store as it is (no session created, no message appended) and
\* never reaches the call to the capability.
C28_EmptyMessageNoEffect ==
    [][\A t \in Threads :
          (pc'[t] # "idle" /\ ~Truthy(user_message'[t])) =>
              /\ pc'[t] = "closed"
              /\ messages'[t] = << >>
              /\ chunks'[t] = 0
              /\ full_response'[t] = ""
              /\ pc[t] = "idle" => conversations' = conversations]_vars

\* A request without a message on the unknown session 's1' was answered and
\* 's1' is still unknown.
C28_Witness ==
    \E t \in Threads :
        /\ pc[t] = "closed"
        /\ status[t] = 200
        /\ ~Truthy(user_message[t])
        /\ session_id[t] = "s1"
        /\ Missing("s1")
        /\ nchats = 0

=============================================================================
